---- MODULE Spec2Model ----
(***************************************************************************)
(* A model of logruseq (src/logruseq.go): the Seq hook for logrus.         *)
(*                                                                         *)
(*   NewSeqHook(host, opts...)  builds the hook from functional options    *)
(*   hook.Levels()              returns the configured level slice         *)
(*   hook.Fire(entry)           formats the entry as CLEF and POSTs it     *)
(*                                                                         *)
(* Source lines and the definitions that model them:                       *)
(*   34-58   NewSeqHook, NewSeqHookValue, ApplyOpts, Endpoint              *)
(*   117-128 OptionAPIKey, OptionLevels, ApplyOpt                          *)
(*   106-108 Levels, LevelsResult                                          *)
(*   62-74   FireFormat, Format (logrus.JSONFormatter with the field map)  *)
(*   76-85   FireNewRequest, BuildRequest, URLParses                       *)
(*   87-91   FireDo, DoOutcomes                                            *)
(*   93-102  FireResponse, InterpretResponse, Errorf                       *)
(* logrus, encoding/json, net/http and time are libraries outside the      *)
(* repository; the parts Fire relies on are modelled by what they do.      *)
(*                                                                         *)
(* Specifications: Spec (construction, then concurrent Fire and Levels),   *)
(* SpecNew (construction over all option lists), SpecAlias (the caller     *)
(* writing into slices it shares with the hook), SpecFormat (the formatter *)
(* over all bounded entries).                                              *)
(*                                                                         *)
(* Go slices are modelled as headers [arr, len] into a heap of backing     *)
(* arrays, so that sharing between the caller's slice, the options and the *)
(* hook is visible.  Strings are TLA+ strings; an HTTP header is a         *)
(* function from canonical key to the sequence of its values.              *)
(***************************************************************************)
EXTENDS Integers, Sequences, FiniteSets, TLC

VARIABLES
    heap,       \* backing arrays of level slices: array id -> sequence of levels
    host,       \* first argument of NewSeqHook
    opts,       \* the options passed to NewSeqHook, in order
    created,    \* TRUE once NewSeqHook has returned
    hook,       \* the SeqHook: [endpoint, apiKey, levels]
    levelsRet,  \* whether Levels() was called, and the slice header it returned
    pc,         \* per caller: position inside Fire
    entry,      \* per caller: the entry passed to Fire
    data,       \* per caller: the formatted body (a JSON object)
    req,        \* per caller: the request built by Fire
    resp,       \* per caller: the outcome of http.DefaultClient.Do
    ret,        \* per caller: the error value Fire returns
    doCalls,    \* per caller: requests handed to the HTTP client in this call
    closed,     \* per caller: calls of resp.Body.Close in this call
    fmtIn,      \* the entry given to the formatter (formatter specification)
    fmtOut      \* what the formatter returned for fmtIn

newVars  == <<heap, host, opts, created, hook, levelsRet>>
fireVars == <<pc, entry, data, req, resp, ret, doCalls, closed>>
fmtVars  == <<fmtIn, fmtOut>>
vars     == <<heap, host, opts, created, hook, levelsRet,
              pc, entry, data, req, resp, ret, doCalls, closed, fmtIn, fmtOut>>

----------------------------------------------------------------------------
(* Bounds                                                                  *)

MaxSliceLen == 2    \* longest level slice a caller passes to OptionLevels
MaxFields   == 2    \* most structured fields of an entry given to the formatter
MaxOpts     == 3    \* most options passed to one NewSeqHook call
NumCallers  == 2    \* goroutines calling Fire and Levels concurrently

Callers == 1..NumCallers

----------------------------------------------------------------------------
(* logrus levels (logrus.Level is a uint32, PanicLevel = 0 .. TraceLevel = 6) *)

PanicLevel == 0
FatalLevel == 1
ErrorLevel == 2
WarnLevel  == 3
InfoLevel  == 4
DebugLevel == 5
TraceLevel == 6

AllLevels == {PanicLevel, FatalLevel, ErrorLevel, WarnLevel, InfoLevel,
              DebugLevel, TraceLevel}

\* The default of NewSeqHook, in the order the source lists it.
DefaultLevels == <<TraceLevel, DebugLevel, InfoLevel, WarnLevel, ErrorLevel,
                   FatalLevel, PanicLevel>>

----------------------------------------------------------------------------
(* Slices                                                                  *)

NilSlice == [arr |-> 0, len |-> 0]

\* The elements a slice header denotes in heap h.
View(h, s) == [i \in 1..s.len |-> h[s.arr][i]]

\* All sequences over S of length at most n.
SeqsUpTo(S, n) == UNION {[1..k -> S] : k \in 0..n}

----------------------------------------------------------------------------
(* Options and construction                                                *)

\* The closure OptionAPIKey(apiKey) returns, as data.
OptionAPIKey(apiKey) == [kind |-> "apiKey", apiKey |-> apiKey, levels |-> NilSlice]

\* The closure OptionLevels(levels) returns: it captures the slice header.
OptionLevels(levels) == [kind |-> "levels", apiKey |-> "", levels |-> levels]

\* An option application that takes an empty level slice for "no change".
ApplyOptKeepsOnEmpty(opt, sho) ==
    IF opt.kind = "apiKey"
    THEN [sho EXCEPT !.apiKey = opt.apiKey]
    ELSE IF opt.levels.len = 0 THEN sho ELSE [sho EXCEPT !.levels = opt.levels]

\* Calling an option closure on the options struct.
ApplyOpt(opt, sho) ==
    IF opt.kind = "apiKey"
    THEN [sho EXCEPT !.apiKey = opt.apiKey]
    ELSE [sho EXCEPT !.levels = opt.levels]

\* A loop that applies the options last to first.
RECURSIVE ApplyOptsReversed(_, _)
ApplyOptsReversed(os, sho) ==
    IF os = <<>> THEN sho
    ELSE ApplyOpt(Head(os), ApplyOptsReversed(Tail(os), sho))

\* for _, opt := range opts { opt(sho) }
RECURSIVE ApplyOpts(_, _)
ApplyOpts(os, sho) ==
    IF os = <<>> THEN sho ELSE ApplyOpts(Tail(os), ApplyOpt(Head(os), sho))

\* fmt.Sprintf("%v/api/events/raw", host)
Endpoint(h) == h \o "/api/events/raw"

\* A constructor that leaves the default levels in the hook.
NewSeqHookValueDefaultLevels(h, os, dflt) ==
    [endpoint |-> Endpoint(h),
     apiKey |-> ApplyOpts(os, [apiKey |-> "", levels |-> dflt]).apiKey,
     levels |-> dflt]

\* The SeqHook NewSeqHook returns; dflt is the header of the freshly
\* allocated default level slice.
NewSeqHookValue(h, os, dflt) ==
    LET sho == ApplyOpts(os, [apiKey |-> "", levels |-> dflt])
    IN  [endpoint |-> Endpoint(h), apiKey |-> sho.apiKey, levels |-> sho.levels]

\* NewSeqHook(host, opts...): allocates the default slice, applies the
\* options and returns the hook.
NewSeqHook ==
    /\ ~created
    /\ LET id == Len(heap) + 1
       IN  /\ heap' = Append(heap, DefaultLevels)
           /\ hook' = NewSeqHookValue(host, opts,
                                      [arr |-> id, len |-> Len(DefaultLevels)])
    /\ created' = TRUE
    /\ UNCHANGED <<host, opts, levelsRet>>
    /\ UNCHANGED fireVars
    /\ UNCHANGED fmtVars

\* hook.Levels(): returns the hook's slice header.
LevelsResult(hk) == hk.levels

Levels ==
    /\ created
    /\ levelsRet' = [called |-> TRUE, slice |-> LevelsResult(hook)]
    /\ UNCHANGED <<heap, host, opts, created, hook>>
    /\ UNCHANGED fireVars
    /\ UNCHANGED fmtVars

----------------------------------------------------------------------------
(* Finite maps with string keys (Go maps)                                  *)

MapSet(m, k, v) == [x \in (DOMAIN m) \cup {k} |-> IF x = k THEN v ELSE m[x]]

MapDel(m, k) == [x \in (DOMAIN m) \ {k} |-> m[x]]

EmptyMap == [x \in {} |-> 0]

----------------------------------------------------------------------------
(* Field values and their JSON encoding                                    *)

\* A Go value stored in entry.Data: a string, an int, an error (with its
\* message) or a channel (a value encoding/json cannot represent).
StringValue(s) == [t |-> "string", s |-> s, n |-> 0]
IntValue(n)    == [t |-> "int",    s |-> "", n |-> n]
ErrorValue(s)  == [t |-> "error",  s |-> s, n |-> 0]
ChanValue      == [t |-> "chan",   s |-> "", n |-> 0]

\* encoding/json accepts strings and numbers, writes an error value that
\* reaches it as an object, and rejects a channel (UnsupportedTypeError).
Marshalable(v) == v.t # "chan"

\* The JSON value written for a Go value.
Marshal(v) ==
    CASE v.t = "string" -> [j |-> "string", s |-> v.s, n |-> 0]
      [] v.t = "int"    -> [j |-> "number", s |-> "",  n |-> v.n]
      [] OTHER          -> [j |-> "object", s |-> "",  n |-> 0]

\* What decoding a JSON value into interface{} yields: a string for a JSON
\* string, a number for a JSON number.
Unmarshal(jv) ==
    CASE jv.j = "string" -> StringValue(jv.s)
      [] jv.j = "number" -> IntValue(jv.n)
      [] OTHER           -> [t |-> "map", s |-> "", n |-> 0]

----------------------------------------------------------------------------
(* logrus.JSONFormatter as Fire configures it                              *)

\* logrus.Level.String()
LevelString(l) ==
    CASE l = TraceLevel -> "trace"
      [] l = DebugLevel -> "debug"
      [] l = InfoLevel  -> "info"
      [] l = WarnLevel  -> "warning"
      [] l = ErrorLevel -> "error"
      [] l = FatalLevel -> "fatal"
      [] l = PanicLevel -> "panic"
      [] OTHER          -> "unknown"

\* n in decimal, left-padded with zeros to width w.
RECURSIVE Pad(_, _)
Pad(n, w) == IF w = 0 THEN "" ELSE Pad(n \div 10, w - 1) \o ToString(n % 10)

\* The fractional second of the layout ".999999999": nothing for zero,
\* otherwise the digits of nsec (w of them) without trailing zeros.
RECURSIVE Fraction(_, _)
Fraction(nsec, w) ==
    IF nsec = 0 THEN ""
    ELSE IF nsec % 10 = 0 THEN Fraction(nsec \div 10, w - 1)
    ELSE "." \o Pad(nsec, w)

\* The zone of the layout "Z07:00": Z for UTC, otherwise sign, hours, minutes.
Zone(offset) ==
    IF offset = 0 THEN "Z"
    ELSE LET a == IF offset < 0 THEN 0 - offset ELSE offset
         IN  (IF offset < 0 THEN "-" ELSE "+")
             \o Pad(a \div 60, 2) \o ":" \o Pad(a % 60, 2)

NanoDigits == 9

\* entry.Time.Format(time.RFC3339Nano); t.date is the rendered
\* "2006-01-02T15:04:05" part of the instant.
TimeFormat(t) == t.date \o Fraction(t.nsec, NanoDigits) \o Zone(t.offset)

\* A formatter left without the field map.
FieldMapResolveDefault(key) == key

\* FieldMap.resolve(key) with the map Fire sets.
FieldMapResolve(key) ==
    CASE key = "msg"   -> "@mt"
      [] key = "level" -> "@l"
      [] key = "time"  -> "@t"
      [] OTHER         -> key

\* One step of prefixFieldClashes: a field under a reserved key moves to
\* "fields." + key.
PrefixClash(d, key) ==
    IF key \in DOMAIN d
    THEN MapDel(MapSet(d, "fields." \o key, d[key]), key)
    ELSE d

\* For the caller keys the field is copied, not moved.
CopyClash(d, key) ==
    IF key \in DOMAIN d THEN MapSet(d, "fields." \o key, d[key]) ELSE d

\* prefixFieldClashes(data, fieldMap, reportCaller)
PrefixFieldClashes(d, reportCaller) ==
    LET d1 == PrefixClash(d,  FieldMapResolve("time"))
        d2 == PrefixClash(d1, FieldMapResolve("msg"))
        d3 == PrefixClash(d2, FieldMapResolve("level"))
        d4 == PrefixClash(d3, FieldMapResolve("logrus_error"))
    IN  IF reportCaller
        THEN CopyClash(CopyClash(d4, FieldMapResolve("func")),
                       FieldMapResolve("file"))
        ELSE d4

\* The map JSONFormatter.Format hands to the JSON encoder.
FormatFields(e) ==
    LET d0 == [k \in DOMAIN e.Data |->
                 IF e.Data[k].t = "error" THEN StringValue(e.Data[k].s)
                 ELSE e.Data[k]]
        d1 == PrefixFieldClashes(d0, e.hasCaller)
        d2 == IF e.err # ""
              THEN MapSet(d1, FieldMapResolve("logrus_error"), StringValue(e.err))
              ELSE d1
        d3 == MapSet(d2, FieldMapResolve("time"), StringValue(TimeFormat(e.Time)))
        d4 == MapSet(d3, FieldMapResolve("msg"), StringValue(e.Message))
        d5 == MapSet(d4, FieldMapResolve("level"), StringValue(LevelString(e.Level)))
        d6 == IF e.hasCaller /\ e.callerFunc # ""
              THEN MapSet(d5, FieldMapResolve("func"), StringValue(e.callerFunc))
              ELSE d5
        d7 == IF e.hasCaller /\ e.callerFile # ""
              THEN MapSet(d6, FieldMapResolve("file"), StringValue(e.callerFile))
              ELSE d6
    IN  d7

\* formatter.Format(entry): the JSON object written, or the encoder's error.
Format(e) ==
    LET d == FormatFields(e)
    IN  IF \A k \in DOMAIN d : Marshalable(d[k])
        THEN [ok |-> TRUE,  json |-> [k \in DOMAIN d |-> Marshal(d[k])]]
        ELSE [ok |-> FALSE, json |-> EmptyMap]

\* json.Unmarshal of the body into a map.
Decode(json) == [k \in DOMAIN json |-> Unmarshal(json[k])]

----------------------------------------------------------------------------
(* Errors                                                                  *)

\* A Go error value: nil, or an error with the place it was made (src), its
\* text and, for fmt.Errorf, the arguments formatted into the text.
NilError == [isErr |-> FALSE, src |-> "", text |-> "", args |-> <<>>]

LibError(src, text) == [isErr |-> TRUE, src |-> src, text |-> text, args |-> <<>>]

\* fmt.Errorf("error creating seq event: %v", string(data))
Errorf(body) ==
    [isErr |-> TRUE, src |-> "errorf",
     text |-> "error creating seq event: " \o body, args |-> <<body>>]

----------------------------------------------------------------------------
(* The HTTP request Fire builds                                            *)

\* textproto.CanonicalMIMEHeaderKey for the keys Fire uses.
CanonicalMIMEHeaderKey(k) ==
    CASE k = "X-Seq-ApiKey" -> "X-Seq-Apikey"
      [] k = "Content-Type" -> "Content-Type"
      [] OTHER              -> k

\* http.Header.Set, Add and Get.
HeaderSet(h, k, v) == MapSet(h, CanonicalMIMEHeaderKey(k), <<v>>)

HeaderAdd(h, k, v) ==
    LET ck == CanonicalMIMEHeaderKey(k)
    IN  MapSet(h, ck, IF ck \in DOMAIN h THEN Append(h[ck], v) ELSE <<v>>)

HeaderHas(h, k) == CanonicalMIMEHeaderKey(k) \in DOMAIN h

HeaderValues(h, k) ==
    IF HeaderHas(h, k) THEN h[CanonicalMIMEHeaderKey(k)] ELSE <<>>

\* http.NewRequest succeeds when url.Parse accepts the URL; it rejects the
\* one without a scheme before its first colon.
URLParses(u) == u # Endpoint(":5341")

NoRequest == [method |-> "", url |-> "", header |-> EmptyMap, body |-> EmptyMap]

\* A Fire that adds the key header without looking at the key.
BuildRequestAlwaysKey(hk, body) ==
    [method |-> "POST", url |-> hk.endpoint, body |-> body,
     header |-> HeaderAdd(HeaderSet(EmptyMap, "Content-Type",
                                    "application/vnd.serilog.clef"),
                          "X-Seq-ApiKey", hk.apiKey)]

\* Lines 76-85: the POST request with its content type and, for a non-empty
\* API key, the key header.
BuildRequest(hk, body) ==
    LET h0 == HeaderSet(EmptyMap, "Content-Type", "application/vnd.serilog.clef")
        h1 == IF hk.apiKey # "" THEN HeaderAdd(h0, "X-Seq-ApiKey", hk.apiKey)
              ELSE h0
    IN  [method |-> "POST", url |-> hk.endpoint, header |-> h1, body |-> body]

----------------------------------------------------------------------------
(* The endpoint                                                            *)

StatusCreated == 201

\* What http.DefaultClient.Do returns: a transport error, or a response with
\* a status and a body that reads fully or fails while being read.
TransportError == [err |-> TRUE, status |-> 0, body |-> "", readable |-> FALSE]

\* Nothing is kept of a body whose read fails, so it is modelled as empty.
Responses ==
    [err : {FALSE}, status : {200, StatusCreated, 204, 500},
     body : {"", "internal error"}, readable : {TRUE}]
    \cup [err : {FALSE}, status : {200, StatusCreated, 204, 500},
           body : {""}, readable : {FALSE}]

NoResponse == [err |-> FALSE, status |-> 0, body |-> "", readable |-> FALSE]

\* The outcomes Do can have for a request: a request with a header value
\* the transport rejects (one with a control character) is never sent.
DoOutcomes(r) ==
    IF \E i \in 1..Len(HeaderValues(r.header, "X-Seq-ApiKey")) :
           HeaderValues(r.header, "X-Seq-ApiKey")[i] = "k\n3"
    THEN {TransportError}
    ELSE {TransportError} \cup Responses

\* A Fire that takes every 2xx status for success.
InterpretResponseAny2xx(rsp) ==
    IF rsp.status < 200 \/ rsp.status > 299
    THEN IF rsp.readable THEN Errorf(rsp.body)
         ELSE LibError("readall", "unexpected EOF")
    ELSE NilError

\* A Fire that reports a rejection without the response body.
InterpretResponseNoBody(rsp) ==
    IF rsp.status # StatusCreated
    THEN IF rsp.readable THEN Errorf("")
         ELSE LibError("readall", "unexpected EOF")
    ELSE NilError

\* Lines 93-102: what Fire returns for a response.
InterpretResponse(rsp) ==
    IF rsp.status # StatusCreated
    THEN IF rsp.readable THEN Errorf(rsp.body)
         ELSE LibError("readall", "unexpected EOF")
    ELSE NilError

----------------------------------------------------------------------------
(* Entries                                                                 *)

Times ==
    { [date |-> "2019-06-01T12:00:00", nsec |-> 0,         offset |-> 0],
      [date |-> "2019-06-01T12:00:00", nsec |-> 120000000, offset |-> 0],
      [date |-> "2019-06-01T12:00:00", nsec |-> 5,         offset |-> 0 - 90] }

Entry(msg, lvl, tm, flds, hasCaller, callerFunc, err) ==
    [Message |-> msg, Level |-> lvl, Time |-> tm, Data |-> flds,
     hasCaller |-> hasCaller, callerFunc |-> callerFunc,
     callerFile |-> IF hasCaller THEN "main.go:10" ELSE "", err |-> err]

NoEntry == Entry("", PanicLevel,
                 [date |-> "", nsec |-> 0, offset |-> 0], EmptyMap, FALSE, "", "")

\* The entries the callers of Fire log: one that formats, one that carries a
\* value encoding/json rejects.
FireEntries ==
    { Entry("hello {user}", InfoLevel, CHOOSE tm \in Times : tm.nsec = 5,
            [k \in {"user"} |-> StringValue("alice")], FALSE, "", ""),
      Entry("bad", ErrorLevel, CHOOSE tm \in Times : tm.nsec = 0,
            [k \in {"ch"} |-> ChanValue], FALSE, "", "") }

----------------------------------------------------------------------------
(* Fire, step by step; one caller is one goroutine inside Fire.            *)

SetPc(c, p) == pc' = [pc EXCEPT ![c] = p]

\* Lines 62-74: format the entry; an encoding error is returned at once.
FireFormat(c, e) ==
    /\ created
    /\ pc[c] = "idle"
    /\ entry' = [entry EXCEPT ![c] = e]
    /\ LET r == Format(e)
       IN  IF r.ok
           THEN /\ data' = [data EXCEPT ![c] = r.json]
                /\ SetPc(c, "formatted")
                /\ UNCHANGED ret
           ELSE /\ ret' = [ret EXCEPT ![c] =
                              LibError("format", "failed to marshal fields to JSON")]
                /\ SetPc(c, "returned")
                /\ UNCHANGED data
    /\ UNCHANGED <<req, resp, doCalls, closed>>
    /\ UNCHANGED newVars
    /\ UNCHANGED fmtVars

\* Lines 76-85 with the hook the step leaves behind.
FireNewRequestWith(c, hk) ==
    /\ pc[c] = "formatted"
    /\ IF URLParses(hook.endpoint)
       THEN /\ req' = [req EXCEPT ![c] = BuildRequest(hook, data[c])]
            /\ SetPc(c, "built")
            /\ UNCHANGED ret
       ELSE /\ ret' = [ret EXCEPT ![c] =
                          LibError("newrequest", "parse: missing protocol scheme")]
            /\ SetPc(c, "returned")
            /\ UNCHANGED req
    /\ hook' = hk
    /\ UNCHANGED <<heap, host, opts, created, levelsRet>>
    /\ UNCHANGED <<entry, data, resp, doCalls, closed>>
    /\ UNCHANGED fmtVars

\* A step that clears the key once it has been put on a request.
FireNewRequestClearsKey(c) == FireNewRequestWith(c, [hook EXCEPT !.apiKey = ""])

\* Lines 76-85: build the request; the hook is only read.
FireNewRequest(c) == FireNewRequestWith(c, hook)

\* Lines 87-91: one call of http.DefaultClient.Do; a transport error is
\* returned, a response is kept and its body closed when Fire returns.
FireDo(c, out) ==
    /\ pc[c] = "built"
    /\ out \in DoOutcomes(req[c])
    /\ doCalls' = [doCalls EXCEPT ![c] = @ + 1]
    /\ resp' = [resp EXCEPT ![c] = out]
    /\ IF out.err
       THEN /\ ret' = [ret EXCEPT ![c] = LibError("do", "Post: connection refused")]
            /\ SetPc(c, "returned")
       ELSE /\ SetPc(c, "responded")
            /\ UNCHANGED ret
    /\ UNCHANGED <<entry, data, req, closed>>
    /\ UNCHANGED newVars
    /\ UNCHANGED fmtVars

\* Lines 93-102 and the deferred Close: r is the value returned, n the
\* number of Close calls made, p the position the step ends in.
FireResponseWith(c, r, n, p) ==
    /\ pc[c] = "responded"
    /\ ret' = [ret EXCEPT ![c] = r]
    /\ closed' = [closed EXCEPT ![c] = @ + n]
    /\ SetPc(c, p)
    /\ UNCHANGED <<entry, data, req, resp, doCalls>>
    /\ UNCHANGED newVars
    /\ UNCHANGED fmtVars

\* A Fire that closes the body only on the success path (no defer).
FireResponseLeak(c) ==
    FireResponseWith(c, InterpretResponse(resp[c]),
                     IF resp[c].status = StatusCreated THEN 1 ELSE 0, "returned")

\* A Fire that sends the request again when the endpoint rejects it.
FireResponseRetry(c) ==
    FireResponseWith(c, InterpretResponse(resp[c]), 1,
                     IF resp[c].status = StatusCreated THEN "returned" ELSE "built")

\* Lines 93-102: interpret the response; the deferred Close runs once on
\* every path.
FireResponse(c) ==
    FireResponseWith(c, InterpretResponse(resp[c]), 1, "returned")

\* Fire has returned ret[c] to its caller; its locals are gone.
FireReturn(c) ==
    /\ pc[c] = "returned"
    /\ SetPc(c, "idle")
    /\ entry' = [entry EXCEPT ![c] = NoEntry]
    /\ data' = [data EXCEPT ![c] = EmptyMap]
    /\ req' = [req EXCEPT ![c] = NoRequest]
    /\ resp' = [resp EXCEPT ![c] = NoResponse]
    /\ ret' = [ret EXCEPT ![c] = NilError]
    /\ doCalls' = [doCalls EXCEPT ![c] = 0]
    /\ closed' = [closed EXCEPT ![c] = 0]
    /\ UNCHANGED newVars
    /\ UNCHANGED fmtVars

----------------------------------------------------------------------------
(* Initial states                                                          *)

FireIdle ==
    /\ pc = [c \in Callers |-> "idle"]
    /\ entry = [c \in Callers |-> NoEntry]
    /\ data = [c \in Callers |-> EmptyMap]
    /\ req = [c \in Callers |-> NoRequest]
    /\ resp = [c \in Callers |-> NoResponse]
    /\ ret = [c \in Callers |-> NilError]
    /\ doCalls = [c \in Callers |-> 0]
    /\ closed = [c \in Callers |-> 0]

NoOutput == [done |-> FALSE, ok |-> FALSE, json |-> EmptyMap]

FmtIdle == fmtIn = NoEntry /\ fmtOut = NoOutput

\* Before NewSeqHook: no hook, and Levels() has not been called.
NotCreated ==
    /\ created = FALSE
    /\ hook = [endpoint |-> "", apiKey |-> "", levels |-> NilSlice]
    /\ levelsRet = [called |-> FALSE, slice |-> NilSlice]

GoodHost == "http://localhost:5341"

Hosts == {GoodHost, ":5341"}

\* The caller's own level slice in the delivery specification.
CallerLevels == <<WarnLevel, ErrorLevel>>

CallerSlice == [arr |-> 1, len |-> Len(CallerLevels)]

\* The option lists the delivery specification starts from.
DeliveryOpts ==
    { <<>>,
      <<OptionAPIKey("k1")>>,
      <<OptionAPIKey("")>>,
      <<OptionAPIKey("k\n3")>>,
      <<OptionLevels(CallerSlice), OptionAPIKey("k1")>>,
      <<OptionAPIKey("k1"), OptionAPIKey("k2")>> }

\* Delivery: the caller holds host and options and has yet to call NewSeqHook.
Init ==
    /\ heap = <<CallerLevels>>
    /\ host \in Hosts
    /\ opts \in DeliveryOpts
    /\ NotCreated
    /\ FireIdle
    /\ FmtIdle

Next ==
    \/ NewSeqHook
    \/ Levels
    \/ \E c \in Callers : \E e \in FireEntries : FireFormat(c, e)
    \/ \E c \in Callers : FireNewRequest(c)
    \/ \E c \in Callers : \E out \in {TransportError} \cup Responses : FireDo(c, out)
    \/ \E c \in Callers : FireResponse(c)
    \/ \E c \in Callers : FireReturn(c)

Spec == Init /\ [][Next]_vars

----------------------------------------------------------------------------
(* Delivery claims (specification Spec)                                    *)

Returned(c) == pc[c] = "returned"

GotResponse(c) == resp[c] \in Responses

\* C1: Fire returns nil exactly when a response was received and its status
\* is 201, whatever the body; every other status, 200 and 204 included, and
\* every call without a response returns an error.
C1_SuccessIff201 ==
    \A c \in Callers :
        Returned(c) =>
            (~ret[c].isErr <=> (GotResponse(c) /\ resp[c].status = StatusCreated))

\* A 201 with a non-empty body returned nil while a 204 returned an error.
C1_Witness ==
    \E c, d \in Callers :
        /\ Returned(c) /\ GotResponse(c) /\ resp[c].status = StatusCreated
        /\ resp[c].body = "internal error" /\ ~ret[c].isErr
        /\ Returned(d) /\ GotResponse(d) /\ resp[d].status = 204 /\ ret[d].isErr

Rejected(c) ==
    /\ Returned(c) /\ GotResponse(c)
    /\ resp[c].status # StatusCreated /\ resp[c].readable

Sendable(c) == Format(entry[c]).ok /\ URLParses(Endpoint(host))

\* C3: a Fire call hands at most one request to the HTTP client: exactly one
\* when formatting and request construction succeed, none otherwise; no
\* outcome leads to a second request, and every failure is returned by the
\* same call as a non-nil error.
C3_OneShot ==
    \A c \in Callers :
        /\ doCalls[c] <= 1
        /\ pc[c] \in {"idle", "formatted", "built"} => doCalls[c] = 0
        /\ pc[c] = "responded" => doCalls[c] = 1
        /\ Returned(c) =>
              /\ doCalls[c] = (IF Sendable(c) THEN 1 ELSE 0)
              /\ (~Sendable(c) \/ ~GotResponse(c)
                    \/ resp[c].status # StatusCreated) => ret[c].isErr

\* One call returned an encoding error without sending, another returned a
\* rejection after its single request.
C3_Witness ==
    \E c, d \in Callers :
        /\ Returned(c) /\ ~Format(entry[c]).ok /\ doCalls[c] = 0 /\ ret[c].isErr
        /\ Returned(d) /\ GotResponse(d) /\ resp[d].status = 500
        /\ doCalls[d] = 1 /\ ret[d].isErr

\* The API key options among opts, and the key the last of them sets.
KeyOptions == {i \in 1..Len(opts) : opts[i].kind = "apiKey"}

LastKey == opts[CHOOSE i \in KeyOptions : \A j \in KeyOptions : j <= i].apiKey

HasRequest(c) == pc[c] \in {"built", "responded"} \/ doCalls[c] > 0

\* C4 as claimed: with a key configured, the empty string included, every
\* request carries X-Seq-ApiKey with exactly that value; with none
\* configured the header is absent.
C4_KeyHeaderForAnyValue ==
    \A c \in Callers :
        HasRequest(c) =>
            IF KeyOptions # {}
            THEN HeaderValues(req[c].header, "X-Seq-ApiKey") = <<LastKey>>
            ELSE ~HeaderHas(req[c].header, "X-Seq-ApiKey")

\* C4 amended: with a non-empty key configured every request carries
\* X-Seq-ApiKey with exactly that value; with no key or the
\* empty string configured the header is absent.
C4_KeyHeaderForNonEmpty ==
    \A c \in Callers :
        HasRequest(c) =>
            IF KeyOptions # {} /\ LastKey # ""
            THEN HeaderValues(req[c].header, "X-Seq-ApiKey") = <<LastKey>>
            ELSE ~HeaderHas(req[c].header, "X-Seq-ApiKey")

\* A request with key k1 has been sent and answered.
C4_Witness ==
    \E c \in Callers :
        /\ pc[c] = "responded" /\ KeyOptions # {} /\ LastKey = "k1"
        /\ HeaderValues(req[c].header, "X-Seq-ApiKey") = <<"k1">>

\* What a Fire call returns, from the hook as constructed, its own entry and
\* the outcome of its own request alone.
FireOutcome(hk, e, rsp) ==
    IF ~Format(e).ok THEN LibError("format", "failed to marshal fields to JSON")
    ELSE IF ~URLParses(hk.endpoint)
         THEN LibError("newrequest", "parse: missing protocol scheme")
    ELSE IF rsp.err THEN LibError("do", "Post: connection refused")
    ELSE InterpretResponse(rsp)

\* The hook as NewSeqHook left it: the default slice is the last array
\* allocated.
HookAsConstructed ==
    NewSeqHookValue(host, opts, [arr |-> Len(heap), len |-> Len(DefaultLevels)])

LevelOptions == {i \in 1..Len(opts) : opts[i].kind = "levels"}

\* C7: once NewSeqHook has returned, in every state reachable by any
\* interleaving of Fire and Levels calls the hook's endpoint, API key and
\* levels are those fixed at construction, whatever the calls' outcomes, and
\* what a call returns is determined by the hook, its own entry and the
\* outcome of its own request.
C7_HookUnchanged ==
    created =>
        /\ hook = HookAsConstructed
        /\ hook.endpoint = Endpoint(host)
        /\ View(heap, hook.levels) =
              (IF LevelOptions = {} THEN DefaultLevels ELSE CallerLevels)
        /\ levelsRet.called => levelsRet.slice = HookAsConstructed.levels
        /\ \A c \in Callers :
              Returned(c) => ret[c] = FireOutcome(HookAsConstructed, entry[c], resp[c])

\* With a key configured, one call has returned a rejection while another is
\* still waiting for its response.
C7_Witness ==
    /\ created /\ hook.apiKey = "k1" /\ levelsRet.called
    /\ \E c, d \in Callers :
          /\ Returned(c) /\ GotResponse(c) /\ resp[c].status = 500
          /\ pc[d] = "built"

\* C8: a response body is closed exactly once before Fire returns on every
\* path that obtained a response (201, non-201 with a readable body, non-201
\* whose read fails), and never on a path that obtained none; until the
\* call interprets the response the body is open.
C8_BodyClosedOnce ==
    \A c \in Callers :
        /\ closed[c] <= 1
        /\ pc[c] = "responded" => GotResponse(c) /\ closed[c] = 0
        /\ Returned(c) => closed[c] = (IF GotResponse(c) THEN 1 ELSE 0)

\* A call whose body read failed has returned with the body closed, and a
\* call that met a transport error has returned with nothing to close.
C8_Witness ==
    \E c, d \in Callers :
        /\ Returned(c) /\ GotResponse(c) /\ ~resp[c].readable
        /\ resp[c].status = 500 /\ closed[c] = 1 /\ ret[c].src = "readall"
        /\ Returned(d) /\ resp[d].err /\ closed[d] = 0

----------------------------------------------------------------------------
(* Construction (specification SpecNew)                                    *)

\* The slice over the caller's second array.
SecondSlice(h) == [arr |-> 2, len |-> Len(h[2])]

\* The options a caller can build over heap h.
NewOptions(h) ==
    {OptionAPIKey(k) : k \in {"", "k1", "k2"}}
    \cup {OptionLevels(CallerSlice), OptionLevels(SecondSlice(h)),
          OptionLevels(NilSlice)}

\* The caller holds two level slices, the second of any content, and any
\* list of options.
InitNew ==
    /\ heap \in {<<CallerLevels, a>> : a \in SeqsUpTo(AllLevels, MaxSliceLen)}
    /\ host = GoodHost
    /\ opts \in SeqsUpTo(NewOptions(heap), MaxOpts)
    /\ NotCreated
    /\ FireIdle
    /\ FmtIdle

SpecNew == InitNew /\ [][NewSeqHook \/ Levels]_vars

LastLevels ==
    opts[CHOOSE i \in LevelOptions : \A j \in LevelOptions : j <= i].levels

\* The levels in the slice the caller gave to the last OptionLevels.
PassedLevels ==
    IF LastLevels = CallerSlice THEN CallerLevels
    ELSE IF LastLevels = SecondSlice(heap) THEN heap[2]
    ELSE <<>>

\* C5: Levels() returns exactly the slice given to OptionLevels, the empty
\* one included, with nothing of the default added or merged; without a
\* level option it returns the seven standard levels.
C5_LevelsExactlyAsConfigured ==
    levelsRet.called =>
        IF LevelOptions # {}
        THEN /\ levelsRet.slice = LastLevels
             /\ View(heap, levelsRet.slice) = PassedLevels
             /\ Len(View(heap, levelsRet.slice)) = LastLevels.len
        ELSE /\ View(heap, levelsRet.slice) = DefaultLevels
             /\ {DefaultLevels[i] : i \in 1..Len(DefaultLevels)} = AllLevels
             /\ Cardinality(AllLevels) = 7

\* Levels() has returned the empty slice the caller configured.
C5_Witness ==
    /\ levelsRet.called /\ LevelOptions # {}
    /\ LastLevels = SecondSlice(heap) /\ heap[2] = <<>>
    /\ View(heap, levelsRet.slice) = <<>>

\* opts with the options at i and i+1 exchanged.
Swap(os, i) ==
    [j \in 1..Len(os) |-> IF j = i THEN os[i + 1] ELSE IF j = i + 1 THEN os[i] ELSE os[j]]

DefaultSlice == [arr |-> Len(heap), len |-> Len(DefaultLevels)]

\* The options struct after the first n options.
ShoAfter(n) == ApplyOpts(SubSeq(opts, 1, n), [apiKey |-> "", levels |-> DefaultSlice])

----------------------------------------------------------------------------
(* Sharing of the level slice with the caller (specification SpecAlias)    *)

\* The levels the caller writes into slices it holds.
AliasLevels == {WarnLevel, ErrorLevel}

InitAlias ==
    /\ heap \in {<<a>> : a \in SeqsUpTo(AliasLevels, MaxSliceLen)}
    /\ host = GoodHost
    /\ opts \in SeqsUpTo({OptionAPIKey("k1"),
                          OptionLevels([arr |-> 1, len |-> Len(heap[1])])}, MaxOpts)
    /\ NotCreated
    /\ FireIdle
    /\ FmtIdle

\* The caller stores v at index i of slice sl (sl[i] = v in Go).
WriteThrough(sl, i, v) ==
    /\ i \in 1..sl.len
    /\ heap' = [heap EXCEPT ![sl.arr][i] = v]
    /\ UNCHANGED <<host, opts, created, hook, levelsRet>>
    /\ UNCHANGED fireVars
    /\ UNCHANGED fmtVars

\* The caller writes into the slice it passed to OptionLevels.
CallerWritesPassed(i, v) ==
    /\ LevelOptions # {}
    /\ \E n \in LevelOptions : WriteThrough(opts[n].levels, i, v)

\* The caller writes into the slice Levels() returned to it.
CallerWritesReturned(i, v) ==
    /\ levelsRet.called
    /\ WriteThrough(levelsRet.slice, i, v)

NextAlias ==
    \/ NewSeqHook
    \/ Levels
    \/ \E i \in 1..MaxSliceLen : \E v \in AliasLevels : CallerWritesPassed(i, v)
    \/ \E i \in 1..Len(DefaultLevels) : \E v \in AliasLevels : CallerWritesReturned(i, v)

SpecAlias == InitAlias /\ [][NextAlias]_vars

\* What Levels() returns now, as a sequence of levels.
AcceptedLevels == View(heap, LevelsResult(hook))

\* C9 as claimed: after NewSeqHook has returned, nothing the caller does to
\* the slice it passed or to a slice Levels() returned changes what Levels()
\* returns.
C9_LevelsNeverChange ==
    [][created => AcceptedLevels' = AcceptedLevels]_vars

\* C9 amended: the hook keeps the very slice it was configured with (the one
\* passed to OptionLevels, or the default one) and Levels() returns that same
\* slice: its header, and so its length, never changes after construction and
\* no hook operation changes its elements, but it shares its elements with
\* the caller, so what Levels() returns is at every moment the current
\* content of the caller's array, in-place writes included.
C9_LevelsSharedWithCaller ==
    /\ [](created =>
            /\ hook.levels = (IF LevelOptions = {} THEN DefaultSlice ELSE LastLevels)
            /\ LevelOptions # {} => AcceptedLevels = heap[1]
            /\ levelsRet.called => levelsRet.slice = hook.levels)
    /\ [][created =>
            /\ hook' = hook
            /\ Len(AcceptedLevels') = Len(AcceptedLevels)
            /\ AcceptedLevels' # AcceptedLevels =>
                  \E i \in 1..Len(DefaultLevels) : \E v \in AliasLevels :
                      CallerWritesPassed(i, v) \/ CallerWritesReturned(i, v)]_vars

\* The hook was built with the default levels, Levels() returned them, and a
\* write of Warn through the returned slice shows in what Levels() returns.
C9_Witness ==
    /\ created /\ levelsRet.called /\ LevelOptions = {}
    /\ DefaultLevels[1] = TraceLevel
    /\ AcceptedLevels[1] = WarnLevel

----------------------------------------------------------------------------
(* The formatter alone (specification SpecFormat)                          *)

FieldNames ==
    {"user", "msg", "@mt", "@l", "@t", "fields.@mt", "logrus_error", "func"}

FieldValues == {StringValue("a"), IntValue(7), ErrorValue("boom"), ChanValue}

\* entry.Data: at most MaxFields fields.
FieldMaps ==
    UNION {[D -> FieldValues] :
              D \in {S \in SUBSET FieldNames : Cardinality(S) <= MaxFields}}

FormatEntries ==
    {Entry("order {id}", lvl, tm, d, ci.has, ci.fn, er) :
        lvl \in {WarnLevel, 7}, tm \in Times, d \in FieldMaps,
        ci \in {[has |-> FALSE, fn |-> ""], [has |-> TRUE, fn |-> ""],
               [has |-> TRUE, fn |-> "main.f"]}, er \in {"", "can not add field"}}

InitFormat ==
    /\ fmtIn \in FormatEntries
    /\ fmtOut = NoOutput
    /\ heap = <<>>
    /\ host = GoodHost
    /\ opts = <<>>
    /\ NotCreated
    /\ FireIdle

\* formatter.Format(fmtIn) with the formatter of lines 62-69.
FormatStep ==
    /\ ~fmtOut.done
    /\ LET r == Format(fmtIn)
       IN  fmtOut' = [done |-> TRUE, ok |-> r.ok, json |-> r.json]
    /\ UNCHANGED fmtIn
    /\ UNCHANGED newVars
    /\ UNCHANGED fireVars

SpecFormat == InitFormat /\ [][FormatStep]_vars

Formatted == fmtOut.done /\ fmtOut.ok

\* A decoded value stands for the original: the same string or number, or
\* the message of an error value.
Equivalent(orig, dec) ==
    IF orig.t = "error" THEN dec = StringValue(orig.s) ELSE dec = orig

\* The entry's message, level name and timestamp under @mt, @l and @t.
ReservedKeysHoldEntry ==
    /\ {"@mt", "@l", "@t"} \subseteq DOMAIN fmtOut.json
    /\ Decode(fmtOut.json)["@mt"] = StringValue(fmtIn.Message)
    /\ Decode(fmtOut.json)["@l"] = StringValue(LevelString(fmtIn.Level))
    /\ Decode(fmtOut.json)["@t"] = StringValue(TimeFormat(fmtIn.Time))

\* Field k of the entry is in the record under key as, with its value.
FieldUnder(k, as) ==
    /\ as \in DOMAIN fmtOut.json
    /\ Equivalent(fmtIn.Data[k], Decode(fmtOut.json)[as])

\* C10 as claimed: the record has the message, level name and timestamp
\* under @mt, @l and @t, and every field of the entry under its own name with
\* an equivalent value, whatever the field's name.
C10_EveryFieldUnderOwnName ==
    Formatted =>
        /\ ReservedKeysHoldEntry
        /\ \A k \in DOMAIN fmtIn.Data : FieldUnder(k, k)

\* The keys the formatter writes itself for entry e.
ReservedKeys(e) ==
    {"@t", "@mt", "@l", "logrus_error"}
    \cup (IF e.hasCaller THEN {"func", "file"} ELSE {})

\* The keys a displaced field is written under.
DisplacedKeys(e) == {"fields." \o r : r \in ReservedKeys(e) \cap DOMAIN e.Data}

\* C10 amended: the record has the message, level name and timestamp under
\* @mt, @l and @t; every field whose name is not a key the formatter writes
\* itself (@t, @mt, @l, logrus_error, and func and file when the entry has
\* caller information) and not "fields." followed by such a key of another
\* field, is under its own name with an equivalent value (an error value as
\* its message); a field named @t, @mt or @l is under "fields." followed by
\* its name instead.
C10_FieldsUnlessReserved ==
    Formatted =>
        /\ ReservedKeysHoldEntry
        /\ \A k \in DOMAIN fmtIn.Data :
              /\ (k \notin ReservedKeys(fmtIn) /\ k \notin DisplacedKeys(fmtIn))
                    => FieldUnder(k, k)
              /\ k \in {"@t", "@mt", "@l"} => FieldUnder(k, "fields." \o k)

\* An entry with a field "user" and a field named "@mt" was formatted: "user"
\* is under its name, the other under "fields.@mt".
C10_Witness ==
    /\ Formatted
    /\ DOMAIN fmtIn.Data = {"user", "@mt"}
    /\ fmtIn.Data["@mt"] = IntValue(7)
    /\ fmtIn.Data["user"] = ErrorValue("boom")
    /\ fmtOut.json["user"] = Marshal(StringValue("boom"))
    /\ fmtOut.json["fields.@mt"] = Marshal(IntValue(7))
    /\ fmtOut.json["@mt"] = Marshal(StringValue("order {id}"))
    /\ fmtOut.json["@t"] \in {Marshal(StringValue("2019-06-01T12:00:00.12Z")),
                              Marshal(StringValue("2019-06-01T12:00:00.000000005-01:30"))}

====
